---- MODULE Spec2Model ----
(***************************************************************************)
(* Request pipeline of the COA Document Processor API: the two wirings of  *)
(* the FastAPI application (app/main.py and app/main1.py), their CORS      *)
(* middlewares, the authentication dependencies of the routes and the      *)
(* exception handlers.                                                     *)
(*                                                                         *)
(* Middleware order follows Starlette: add_middleware (and the             *)
(* @app.middleware decorator, which calls it) inserts at the front of the  *)
(* list, so the middleware added LAST is the OUTERMOST one.                *)
(*   main.py : ServerErrorMiddleware > TrustedHost > enhanced_cors >       *)
(*             CORSMiddleware > AuthLogging > ExceptionMiddleware > router *)
(*   main1.py: ServerErrorMiddleware > CORSMiddleware > emergency_cors >   *)
(*             ExceptionMiddleware > router                                *)
(* Handlers registered for 500 go to ServerErrorMiddleware; handlers for   *)
(* 401/403/404 go to ExceptionMiddleware and see HTTPException only.       *)
(***************************************************************************)
EXTENDS Integers, Sequences, FiniteSets, TLC

\* ---------------------------------------------------------------------
\* Values
\* ---------------------------------------------------------------------

\* marker of a header, body field or request header that is not present
Absent == "<absent>"

\* str(e) of an exception raised in downstream logic
ExcText == "<str(exc)>"

\* principals handed to a route
NoPrincipal == "<none>"

RealUserId == "token-subject"

DebugUserId == "debug-user-id"

Wirings == {"main", "main1"}

Methods == {"GET", "PUT", "OPTIONS"}

\* route kinds: "/" , "/auth/status", a route of the compounds / templates /
\* documents routers, an unauthenticated route (health), no route at all
Paths == {"/", "/auth/status", "/compounds/{id}", "/health", "/no-such-route"}

AllowedOrigin == "https://localhost:3000"

UnlistedOrigin == "https://app.example.com"

Origins == {Absent, AllowedOrigin, UnlistedOrigin}

\* values of Access-Control-Request-Method on a preflight
RequestMethods == {Absent, "GET", "TRACE"}

\* values of Access-Control-Request-Headers on a preflight
RequestHeaders == {Absent, "authorization"}

\* bearer credential of the request
Credentials == {"none", "valid", "expired"}

\* state of the identity provider when a token is validated
ProviderStates == {"up", "down"}

\* what a route handler does once invoked
HandlerOutcomes == {"ok", "http403", "http404", "raise"}

Requests ==
    [method : Methods, path : Paths, origin : Origins, cookie : BOOLEAN,
     acrm : RequestMethods, acrh : RequestHeaders, cred : Credentials]

\* ---------------------------------------------------------------------
\* Responses and exceptions
\* ---------------------------------------------------------------------

NoHeaders ==
    [acao |-> Absent, acac |-> Absent, acam |-> Absent, acah |-> Absent,
     maxage |-> Absent, vary |-> Absent, wwwauth |-> Absent]

NoBody ==
    [detail |-> Absent, error |-> Absent, path |-> Absent, user |-> Absent]

NoResponse == [status |-> 0, body |-> NoBody, headers |-> NoHeaders]

NoExc == [kind |-> "none", status |-> 0, detail |-> Absent, wwwauth |-> Absent]

\* fastapi.HTTPException(status_code, detail, headers)
HTTPException(st, detail, www) ==
    [kind |-> "http", status |-> st, detail |-> detail, wwwauth |-> www]

\* any other exception; its message is ExcText
UnhandledError ==
    [kind |-> "error", status |-> 0, detail |-> ExcText, wwwauth |-> Absent]

\* MutableHeaders.add_vary_header
AddVary(h) ==
    [h EXCEPT !.vary = IF h.vary = Absent THEN "Origin" ELSE h.vary \o ", Origin"]

\* ---------------------------------------------------------------------
\* starlette CORSMiddleware, as the two wirings configure it
\* ---------------------------------------------------------------------

\* allow_origins of main.py; entries are compared as exact strings
MainAllowOrigins ==
    {"https://beone-d.beigenecorp.net", "https://10.8.63.207:3000",
     "http://10.8.63.207:3000", "https://localhost:3000", "http://localhost:3000",
     "https://office.live.com", "https://outlook.office.com",
     "https://outlook.office365.com", "https://teams.microsoft.com",
     "http://localhost:*", "https://localhost:*"}

\* CORSMiddleware(...) of main.py
MainCorsConfig ==
    [allow_all_origins |-> FALSE,
     allow_origins |-> MainAllowOrigins,
     allow_credentials |-> TRUE,
     allow_methods |-> {"GET", "POST", "PUT", "DELETE", "OPTIONS", "HEAD"},
     allow_methods_text |-> "GET, POST, PUT, DELETE, OPTIONS, HEAD",
     allow_all_headers |-> FALSE,
     allow_headers |-> {"accept", "accept-language", "content-language",
                        "content-type", "authorization", "x-requested-with",
                        "origin", "referer", "user-agent", "x-api-key"},
     allow_headers_text |-> "Accept, Accept-Language, Authorization, Content-Language, Content-Type, Origin, Referer, User-Agent, X-API-Key, X-Requested-With",
     max_age |-> "3600"]

\* CORSMiddleware(...) of main1.py: "*" in allow_methods means ALL_METHODS
Main1CorsConfig ==
    [allow_all_origins |-> TRUE,
     allow_origins |-> {"*"},
     allow_credentials |-> TRUE,
     allow_methods |-> {"DELETE", "GET", "HEAD", "OPTIONS", "PATCH", "POST", "PUT"},
     allow_methods_text |-> "DELETE, GET, HEAD, OPTIONS, PATCH, POST, PUT",
     allow_all_headers |-> TRUE,
     allow_headers |-> {"*"},
     allow_headers_text |-> Absent,
     max_age |-> "3600"]

CorsConfig(w) == IF w = "main" THEN MainCorsConfig ELSE Main1CorsConfig

\* CORSMiddleware.is_allowed_origin
IsAllowedOrigin(cfg, origin) ==
    cfg.allow_all_origins \/ origin \in cfg.allow_origins

\* CORSMiddleware.__init__: preflight_headers
CorsPreflightHeaders(cfg) ==
    LET explicit == ~cfg.allow_all_origins \/ cfg.allow_credentials
    IN  [NoHeaders EXCEPT
           !.vary = IF explicit THEN "Origin" ELSE Absent,
           !.acao = IF explicit THEN Absent ELSE "*",
           !.acam = cfg.allow_methods_text,
           !.maxage = cfg.max_age,
           !.acah = IF cfg.allow_all_headers THEN Absent ELSE cfg.allow_headers_text,
           !.acac = IF cfg.allow_credentials THEN "true" ELSE Absent]

\* CORSMiddleware.preflight_response: 200 "OK", or 400 when the origin, the
\* requested method or a requested header is not allowed (a plain-text body)
CorsPreflightResponse(cfg, r) ==
    LET explicit == ~cfg.allow_all_origins \/ cfg.allow_credentials
        h0 == CorsPreflightHeaders(cfg)
        originOk == IsAllowedOrigin(cfg, r.origin)
        h1 == IF originOk /\ explicit THEN [h0 EXCEPT !.acao = r.origin] ELSE h0
        methodOk == r.acrm \in cfg.allow_methods
        h2 == IF cfg.allow_all_headers /\ r.acrh # Absent
              THEN [h1 EXCEPT !.acah = r.acrh] ELSE h1
        headersOk == cfg.allow_all_headers \/ r.acrh = Absent
                     \/ r.acrh \in cfg.allow_headers
        failed == ~originOk \/ ~methodOk \/ ~headersOk
    IN  [status |-> IF failed THEN 400 ELSE 200,
         body |-> NoBody,
         headers |-> h2]

\* CORSMiddleware.send: the headers put on a response that passes through a
\* request which carried an Origin header (simple_headers overwrite what is there)
CorsSimpleResponse(cfg, r, resp) ==
    LET h0 == resp.headers
        h1 == IF cfg.allow_all_origins THEN [h0 EXCEPT !.acao = "*"] ELSE h0
        h2 == IF cfg.allow_credentials THEN [h1 EXCEPT !.acac = "true"] ELSE h1
        h3 == IF cfg.allow_all_origins /\ r.cookie
              THEN AddVary([h2 EXCEPT !.acao = r.origin])
              ELSE IF ~cfg.allow_all_origins /\ IsAllowedOrigin(cfg, r.origin)
              THEN AddVary([h2 EXCEPT !.acao = r.origin])
              ELSE h2
    IN  [resp EXCEPT !.headers = h3]

\* ---------------------------------------------------------------------
\* main.py: enhanced_cors_middleware and the exception handlers
\* ---------------------------------------------------------------------

MainAllowMethods == "GET, POST, PUT, DELETE, OPTIONS"

MainAllowHeaders == "Content-Type, Authorization, X-Requested-With"

\* the OPTIONS branch of enhanced_cors_middleware
EnhancedPreflight ==
    [status |-> 200,
     body |-> NoBody,
     headers |-> [NoHeaders EXCEPT !.acao = "*", !.acam = MainAllowMethods,
                                   !.acah = MainAllowHeaders, !.acac = "true",
                                   !.maxage = "3600"]]

\* the headers enhanced_cors_middleware sets on the response of call_next
EnhancedApplyCors(resp) ==
    [resp EXCEPT !.headers.acao = "*", !.headers.acam = MainAllowMethods,
                 !.headers.acah = MainAllowHeaders, !.headers.acac = "true"]

\* mutant: the except branch answers without Access-Control-Allow-Credentials,
\* as the exception handlers of main.py do
EnhancedErrorResponse_NoCredentials(e) ==
    [status |-> 500,
     body |-> [NoBody EXCEPT !.detail = "Internal server error"],
     headers |-> [NoHeaders EXCEPT !.acao = "*", !.acam = "GET, POST, PUT, DELETE, OPTIONS",
                                   !.acah = "Content-Type, Authorization, X-Requested-With"]]

\* the except branch of enhanced_cors_middleware
EnhancedErrorResponse(e) ==
    [status |-> 500,
     body |-> [NoBody EXCEPT !.detail = "Internal server error"],
     headers |-> [NoHeaders EXCEPT !.acao = "*", !.acam = MainAllowMethods,
                                   !.acah = MainAllowHeaders, !.acac = "true"]]

MainHandlerHeaders ==
    [NoHeaders EXCEPT !.acao = "*", !.acam = MainAllowMethods,
                      !.acah = MainAllowHeaders]

main_not_found_handler(r, e) ==
    [status |-> 404,
     body |-> [NoBody EXCEPT !.detail = "Resource not found"],
     headers |-> MainHandlerHeaders]

\* mutant: the 401 handler answers without the WWW-Authenticate header
unauthorized_handler_NoChallenge(r, e) ==
    [status |-> 401,
     body |-> [NoBody EXCEPT !.detail = "Authentication required"],
     headers |-> MainHandlerHeaders]

unauthorized_handler(r, e) ==
    [status |-> 401,
     body |-> [NoBody EXCEPT !.detail = "Authentication required"],
     headers |-> [MainHandlerHeaders EXCEPT !.wwwauth = "Bearer"]]

forbidden_handler(r, e) ==
    [status |-> 403,
     body |-> [NoBody EXCEPT !.detail = "Access forbidden"],
     headers |-> MainHandlerHeaders]

main_internal_error_handler(r, e) ==
    [status |-> 500,
     body |-> [NoBody EXCEPT !.detail = "Internal server error"],
     headers |-> MainHandlerHeaders]

\* ---------------------------------------------------------------------
\* main1.py: emergency_cors_middleware and the exception handlers
\* ---------------------------------------------------------------------

\* origin or "*"   (request.headers.get("origin") is None without the header)
OriginOrStar(origin) == IF origin = Absent THEN "*" ELSE origin

EmergencyHeaders(origin) ==
    [NoHeaders EXCEPT !.acao = OriginOrStar(origin), !.acac = "true",
                      !.acam = "*", !.acah = "*", !.vary = "Origin"]

\* mutant: the OPTIONS branch answers without Vary
EmergencyPreflight_NoVary(origin) ==
    [status |-> 200,
     body |-> NoBody,
     headers |-> [NoHeaders EXCEPT !.acao = OriginOrStar(origin), !.acac = "true",
                                   !.acam = "*", !.acah = "*", !.maxage = "86400"]]

\* the OPTIONS branch of emergency_cors_middleware
EmergencyPreflight(origin) ==
    [status |-> 200,
     body |-> NoBody,
     headers |-> [EmergencyHeaders(origin) EXCEPT !.maxage = "86400"]]

\* the headers emergency_cors_middleware sets on the response of call_next
EmergencyApplyCors(origin, resp) ==
    [resp EXCEPT !.headers.acao = OriginOrStar(origin), !.headers.acac = "true",
                 !.headers.acam = "*", !.headers.acah = "*",
                 !.headers.vary = "Origin"]

\* the except branch of emergency_cors_middleware: "detail": str(e)
EmergencyErrorResponse(origin, e) ==
    [status |-> 500,
     body |-> [NoBody EXCEPT !.error = "Internal server error", !.detail = e.detail],
     headers |-> EmergencyHeaders(origin)]

Main1HandlerHeaders(origin) ==
    [NoHeaders EXCEPT !.acao = OriginOrStar(origin), !.acac = "true",
                      !.acam = "*", !.acah = "*"]

main1_not_found_handler(r, e) ==
    [status |-> 404,
     body |-> [NoBody EXCEPT !.detail = "Resource not found", !.path = r.path],
     headers |-> Main1HandlerHeaders(r.origin)]

\* "error": str(exc) if settings.DEBUG else "Internal server error"
main1_internal_error_handler(dbg, r, e) ==
    [status |-> 500,
     body |-> [NoBody EXCEPT !.detail = "Internal server error",
                             !.error = IF dbg THEN e.detail
                                       ELSE "Internal server error"],
     headers |-> Main1HandlerHeaders(r.origin)]

\* fastapi's handler of an HTTPException no registered handler takes:
\* {"detail": exc.detail}, exc.status_code, headers=exc.headers
http_exception_handler(r, e) ==
    [status |-> e.status,
     body |-> [NoBody EXCEPT !.detail = e.detail],
     headers |-> [NoHeaders EXCEPT !.wwwauth = e.wwwauth]]

\* ExceptionMiddleware: the handler registered for the HTTPException's status
HandleHTTPException(w, r, e) ==
    IF w = "main"
    THEN CASE e.status = 404 -> main_not_found_handler(r, e)
           [] e.status = 401 -> unauthorized_handler(r, e)
           [] e.status = 403 -> forbidden_handler(r, e)
           [] OTHER -> http_exception_handler(r, e)
    ELSE CASE e.status = 404 -> main1_not_found_handler(r, e)
           [] OTHER -> http_exception_handler(r, e)

\* ServerErrorMiddleware: the handler registered for 500
HandleServerError(w, dbg, r, e) ==
    IF w = "main" THEN main_internal_error_handler(r, e)
    ELSE main1_internal_error_handler(dbg, r, e)

\* ---------------------------------------------------------------------
\* Authentication dependencies
\* ---------------------------------------------------------------------

\* credential extractor, token validator and principal resolver in sequence:
\* "absent" without a bearer credential, "failure" when validation fails or
\* the identity provider cannot be reached, "principal" otherwise
AuthChain(cred, idpState) ==
    IF cred = "none" THEN "absent"
    ELSE IF idpState = "down" THEN "failure"
    ELSE IF cred = "valid" THEN "principal"
    ELSE "failure"

\* require_authentication: the principal, or a 401 with WWW-Authenticate: Bearer
require_authentication(cred, idpState) ==
    IF AuthChain(cred, idpState) = "principal"
    THEN [principal |-> RealUserId, exc |-> NoExc]
    ELSE [principal |-> NoPrincipal,
          exc |-> HTTPException(401, "Authentication required", "Bearer")]

\* optional_authentication: the principal, or None on any failure
optional_authentication(cred, idpState) ==
    IF AuthChain(cred, idpState) = "principal" THEN RealUserId ELSE NoPrincipal

\* mutant: the except branch returns the debug user without asking settings.DEBUG
debug_optional_auth_ExceptIgnoresFlag(dbg, outcome) ==
    IF outcome = "principal" THEN RealUserId
    ELSE IF outcome = "absent"
    THEN (IF dbg THEN DebugUserId ELSE NoPrincipal)
    ELSE DebugUserId

\* debug_optional_auth. outcome is what "await optional_authentication()" did:
\* returned a user ("principal"), returned None ("absent") or raised ("raises")
debug_optional_auth(dbg, outcome) ==
    IF outcome = "principal" THEN RealUserId
    ELSE IF outcome = "absent"
    THEN (IF dbg THEN DebugUserId ELSE NoPrincipal)
    ELSE (IF dbg THEN DebugUserId ELSE NoPrincipal)

\* mutant: the choice of dependency is inverted
auth_dependency_Inverted(dbg) ==
    IF dbg THEN "require_authentication" ELSE "debug_optional_auth"

\* auth_dependency = debug_optional_auth if settings.DEBUG else require_authentication
auth_dependency(dbg) ==
    IF dbg THEN "debug_optional_auth" ELSE "require_authentication"

\* the dependency each route declares (Depends(...) of the route or, for the
\* compounds / templates / documents routers, of include_router)
AuthRequirement(w, dbg, path) ==
    IF w = "main"
    THEN CASE path = "/" -> "optional_authentication"
           [] path = "/auth/status" -> "optional_authentication"
           [] path = "/compounds/{id}" -> "require_authentication"
           [] OTHER -> "none"
    ELSE CASE path = "/auth/status" -> "optional_authentication"
           [] path = "/compounds/{id}" -> auth_dependency(dbg)
           [] OTHER -> "none"

\* ---------------------------------------------------------------------
\* Routes
\* ---------------------------------------------------------------------

\* what the handler of a route can do: the handlers of main.py / main1.py
\* return a dict; a router handler can also raise HTTPException (get_compound
\* raises 404) or fail with any other exception (the database call)
OutcomesOf(path) ==
    IF path = "/compounds/{id}" THEN HandlerOutcomes ELSE {"ok"}

\* the 200 response of a route; root (main.py) and check_auth_status report
\* the injected user
RouteResponse(w, path, user) ==
    [status |-> 200,
     body |-> [NoBody EXCEPT !.user =
                 IF path = "/auth/status" \/ (path = "/" /\ w = "main")
                 THEN user ELSE Absent],
     headers |-> NoHeaders]

\* the exception a handler outcome stands for
OutcomeException(outcome) ==
    CASE outcome = "http404" -> HTTPException(404, "Compound not found", Absent)
      [] outcome = "http403" -> HTTPException(403, "Forbidden", Absent)
      [] outcome = "raise" -> UnhandledError
      [] OTHER -> NoExc

\* methods each route is registered for (@app.get, @router.get / put / delete)
MethodAllowed(path, method) ==
    IF path = "/compounds/{id}" THEN method \in {"GET", "PUT", "DELETE"}
    ELSE method = "GET"

\* ---------------------------------------------------------------------
\* State
\* ---------------------------------------------------------------------

VARIABLES
    wiring,          \* which application module is served: "main" or "main1"
    DEBUG,           \* settings.DEBUG, fixed at startup
    pc,              \* where the request in flight is in the pipeline
    req,             \* the request in flight
    response,        \* the response built so far
    exc,             \* the exception propagating outwards, NoExc if none
    principal,       \* what the authentication dependency handed to the route
    authInvoked,     \* an authentication dependency ran for this request
    authRaised,      \* the authentication call of this request raised
    handlerInvoked,  \* a route handler ran for this request
    idp,             \* identity provider state seen by this request
    corsWrap,        \* CORSMiddleware wraps send for this request
    okSeen,          \* CORS headers of the last 2xx answer to a non-OPTIONS request
    compounds,       \* the compounds table: compound id -> code, NoRow if no row
    uniqueCode,      \* the compounds table has a unique index on code
    lastOp           \* the last operation of the compounds router and its result

vars ==
    <<wiring, DEBUG, pc, req, response, exc, principal, authInvoked, authRaised,
      handlerInvoked, idp, corsWrap, okSeen, compounds, uniqueCode, lastOp>>

config == <<wiring, DEBUG>>

store == <<compounds, uniqueCode, lastOp>>

NoRequest ==
    [method |-> "GET", path |-> "/", origin |-> Absent, cookie |-> FALSE,
     acrm |-> Absent, acrh |-> Absent, cred |-> "none"]

NoSeen == [origin |-> Absent, cookie |-> FALSE, cors |-> <<>>]

\* the four CORS response headers of a response
CorsOf(resp) ==
    <<resp.headers.acao, resp.headers.acac, resp.headers.acam, resp.headers.acah>>

\* ---------------------------------------------------------------------
\* The compounds table (app/api/v1/compounds.py)
\* ---------------------------------------------------------------------

\* number of compound ids (UUIDs) the model tells apart
MaxCompounds == 4

CompoundIds == 1..MaxCompounds

\* the codes of initialize_default_compounds, in its order
DefaultCodes == <<"BGB-21447", "BGB-16673", "BGB-43395">>

\* codes a request can carry: the defaults, another code, the empty string
Codes == {"", "BGB-21447", "BGB-16673", "BGB-43395", "BGB-00001"}

\* an id without a row
NoRow == "<no row>"

\* a field of CompoundUpdate the request did not set
Unset == "<unset>"

NoOp == [kind |-> "none", status |-> 0, dup |-> FALSE, changed |-> FALSE]

\* ids that have a row
Rows(c) == {i \in CompoundIds : c[i] # NoRow}

\* db.query(Compound).filter(Compound.code == code)
ByCode(c, code) == {i \in Rows(c) : c[i] = code}

\* no two rows have the same code
DistinctCodes(c) == \A i, j \in Rows(c) : i # j => c[i] # c[j]

\* Python truth value of a str
Truthy(text) == text # ""

\* db.commit(): with a unique index on code a duplicate is refused
\* (IntegrityError, the table is left as it was)
CommitOk(unique, c) == ~unique \/ DistinctCodes(c)

\* no request in flight, in either wiring and debug mode
PipelineInit ==
    /\ wiring \in Wirings
    /\ DEBUG \in BOOLEAN
    /\ pc = "idle"
    /\ req = NoRequest
    /\ response = NoResponse
    /\ exc = NoExc
    /\ principal = NoPrincipal
    /\ authInvoked = FALSE
    /\ authRaised = FALSE
    /\ handlerInvoked = FALSE
    /\ idp = "up"
    /\ corsWrap = FALSE
    /\ okSeen = NoSeen

\* the pipeline specification starts with an empty table and never runs the
\* handlers' database calls
Init ==
    /\ PipelineInit
    /\ compounds = [i \in CompoundIds |-> NoRow]
    /\ uniqueCode = FALSE
    /\ lastOp = NoOp

\* ---------------------------------------------------------------------
\* Inbound
\* ---------------------------------------------------------------------

\* a request arrives. The preflight request headers are read for OPTIONS
\* only, so other methods carry none. TrustedHostMiddleware (main.py) lists
\* "*" and lets every host through.
ReceiveRequest ==
    /\ pc \in {"idle", "done"}
    /\ \E r \in Requests :
         /\ r.method # "OPTIONS" => r.acrm = Absent
         /\ r.acrm = Absent => r.acrh = Absent
         /\ req' = r
    /\ pc' = IF wiring = "main" THEN "enhanced_request" ELSE "cors_request"
    /\ response' = NoResponse
    /\ exc' = NoExc
    /\ principal' = NoPrincipal
    /\ authInvoked' = FALSE
    /\ authRaised' = FALSE
    /\ handlerInvoked' = FALSE
    /\ idp' = "up"
    /\ corsWrap' = FALSE
    /\ UNCHANGED <<store, config, okSeen>>

\* enhanced_cors_middleware up to call_next: OPTIONS is answered here
enhanced_cors_middleware_request ==
    /\ pc = "enhanced_request"
    /\ IF req.method = "OPTIONS"
       THEN /\ response' = EnhancedPreflight
            /\ pc' = "server_error"
       ELSE /\ response' = response
            /\ pc' = "cors_request"
    /\ UNCHANGED <<store, config, req, exc, principal, authInvoked, authRaised,
                   handlerInvoked, idp, corsWrap, okSeen>>

\* CORSMiddleware.__call__: no Origin, a preflight, or a wrapped request
CORSMiddleware_request ==
    /\ pc = "cors_request"
    /\ IF req.origin = Absent
       THEN /\ corsWrap' = FALSE
            /\ response' = response
            /\ pc' = IF wiring = "main" THEN "auth_logging" ELSE "emergency_request"
       ELSE IF req.method = "OPTIONS" /\ req.acrm # Absent
       THEN /\ corsWrap' = FALSE
            /\ response' = CorsPreflightResponse(CorsConfig(wiring), req)
            /\ pc' = IF wiring = "main" THEN "enhanced_response" ELSE "server_error"
       ELSE /\ corsWrap' = TRUE
            /\ response' = response
            /\ pc' = IF wiring = "main" THEN "auth_logging" ELSE "emergency_request"
    /\ UNCHANGED <<store, config, req, exc, principal, authInvoked, authRaised,
                   handlerInvoked, idp, okSeen>>

\* AuthLoggingMiddleware (main.py): logs, passes the request on
AuthLoggingMiddleware ==
    /\ pc = "auth_logging"
    /\ pc' = "route"
    /\ UNCHANGED <<store, config, req, response, exc, principal, authInvoked, authRaised,
                   handlerInvoked, idp, corsWrap, okSeen>>

\* emergency_cors_middleware up to call_next: OPTIONS is answered here
emergency_cors_middleware_request ==
    /\ pc = "emergency_request"
    /\ IF req.method = "OPTIONS"
       THEN /\ response' = EmergencyPreflight(req.origin)
            /\ pc' = "cors_response"
       ELSE /\ response' = response
            /\ pc' = "route"
    /\ UNCHANGED <<store, config, req, exc, principal, authInvoked, authRaised,
                   handlerInvoked, idp, corsWrap, okSeen>>

\* the router: 404 without a route, 405 for a method the route does not
\* take, else on to the route's dependencies
Router ==
    /\ pc = "route"
    /\ IF req.path = "/no-such-route"
       THEN /\ exc' = HTTPException(404, "Not Found", Absent)
            /\ pc' = "exception_middleware"
       ELSE IF ~MethodAllowed(req.path, req.method)
       THEN /\ exc' = HTTPException(405, "Method Not Allowed", Absent)
            /\ pc' = "exception_middleware"
       ELSE /\ exc' = exc
            /\ pc' = "auth"
    /\ UNCHANGED <<store, config, req, response, principal, authInvoked, authRaised,
                   handlerInvoked, idp, corsWrap, okSeen>>

\* ---------------------------------------------------------------------
\* Dependencies and route handlers
\* ---------------------------------------------------------------------

\* a route that declares no authentication dependency
NoAuthentication ==
    /\ pc = "auth"
    /\ AuthRequirement(wiring, DEBUG, req.path) = "none"
    /\ pc' = "handler"
    /\ UNCHANGED <<store, config, req, response, exc, principal, authInvoked, authRaised,
                   handlerInvoked, idp, corsWrap, okSeen>>

\* Depends(require_authentication)
RequireAuthentication ==
    /\ pc = "auth"
    /\ AuthRequirement(wiring, DEBUG, req.path) = "require_authentication"
    /\ \E s \in ProviderStates :
         LET res == require_authentication(req.cred, s)
         IN  /\ idp' = s
             /\ principal' = res.principal
             /\ exc' = res.exc
             /\ pc' = IF res.exc = NoExc THEN "handler" ELSE "exception_middleware"
    /\ authInvoked' = TRUE
    /\ UNCHANGED <<store, config, req, response, authRaised, handlerInvoked, corsWrap,
                   okSeen>>

\* Depends(optional_authentication)
OptionalAuthentication ==
    /\ pc = "auth"
    /\ AuthRequirement(wiring, DEBUG, req.path) = "optional_authentication"
    /\ \E s \in ProviderStates :
         /\ idp' = s
         /\ principal' = optional_authentication(req.cred, s)
    /\ authInvoked' = TRUE
    /\ pc' = "handler"
    /\ UNCHANGED <<store, config, req, response, exc, authRaised, handlerInvoked,
                   corsWrap, okSeen>>

\* Depends(debug_optional_auth): it calls optional_authentication() itself,
\* with no arguments, inside try / except; the call returns a user, returns
\* None, or raises
DebugOptionalAuth ==
    /\ pc = "auth"
    /\ AuthRequirement(wiring, DEBUG, req.path) = "debug_optional_auth"
    /\ \E s \in ProviderStates, raises \in BOOLEAN :
         LET user == optional_authentication(req.cred, s)
             outcome == IF raises THEN "raises"
                        ELSE IF user = NoPrincipal THEN "absent" ELSE "principal"
         IN  /\ idp' = s
             /\ authRaised' = raises
             /\ principal' = debug_optional_auth(DEBUG, outcome)
    /\ authInvoked' = TRUE
    /\ pc' = "handler"
    /\ UNCHANGED <<store, config, req, response, exc, handlerInvoked, corsWrap, okSeen>>

\* the route handler runs: it returns, raises HTTPException, or fails
RouteHandler ==
    /\ pc = "handler"
    /\ \E outcome \in OutcomesOf(req.path) :
         IF outcome = "ok"
         THEN /\ response' = RouteResponse(wiring, req.path, principal)
              /\ exc' = exc
         ELSE /\ response' = response
              /\ exc' = OutcomeException(outcome)
    /\ handlerInvoked' = TRUE
    /\ pc' = "exception_middleware"
    /\ UNCHANGED <<store, config, req, principal, authInvoked, authRaised, idp, corsWrap,
                   okSeen>>

\* ---------------------------------------------------------------------
\* Outbound
\* ---------------------------------------------------------------------

\* ExceptionMiddleware: an HTTPException becomes the response of its handler;
\* any other exception propagates
ExceptionMiddleware ==
    /\ pc = "exception_middleware"
    /\ IF exc.kind = "http"
       THEN /\ response' = HandleHTTPException(wiring, req, exc)
            /\ exc' = NoExc
       ELSE /\ response' = response
            /\ exc' = exc
    /\ pc' = IF wiring = "main" THEN "cors_response" ELSE "emergency_response"
    /\ UNCHANGED <<store, config, req, principal, authInvoked, authRaised, handlerInvoked,
                   idp, corsWrap, okSeen>>

\* emergency_cors_middleware after call_next: try / except Exception
emergency_cors_middleware_response ==
    /\ pc = "emergency_response"
    /\ response' = IF exc = NoExc THEN EmergencyApplyCors(req.origin, response)
                   ELSE EmergencyErrorResponse(req.origin, exc)
    /\ exc' = NoExc
    /\ pc' = "cors_response"
    /\ UNCHANGED <<store, config, req, principal, authInvoked, authRaised, handlerInvoked,
                   idp, corsWrap, okSeen>>

\* CORSMiddleware.send on the way out of a wrapped request
CORSMiddleware_response ==
    /\ pc = "cors_response"
    /\ response' = IF corsWrap /\ exc = NoExc
                   THEN CorsSimpleResponse(CorsConfig(wiring), req, response)
                   ELSE response
    /\ pc' = IF wiring = "main" THEN "enhanced_response" ELSE "server_error"
    /\ UNCHANGED <<store, config, req, exc, principal, authInvoked, authRaised,
                   handlerInvoked, idp, corsWrap, okSeen>>

\* enhanced_cors_middleware after call_next: try / except Exception
enhanced_cors_middleware_response ==
    /\ pc = "enhanced_response"
    /\ response' = IF exc = NoExc THEN EnhancedApplyCors(response)
                   ELSE EnhancedErrorResponse(exc)
    /\ exc' = NoExc
    /\ pc' = "server_error"
    /\ UNCHANGED <<store, config, req, principal, authInvoked, authRaised, handlerInvoked,
                   idp, corsWrap, okSeen>>

\* ServerErrorMiddleware, the outermost layer: an exception that got this far
\* is answered by the handler registered for 500; the response leaves
ServerErrorMiddleware ==
    /\ pc = "server_error"
    /\ LET out == IF exc = NoExc THEN response
                  ELSE HandleServerError(wiring, DEBUG, req, exc)
       IN  /\ response' = out
           /\ okSeen' = IF req.method # "OPTIONS" /\ out.status \in 200..299
                        THEN [origin |-> req.origin, cookie |-> req.cookie,
                              cors |-> CorsOf(out)]
                        ELSE okSeen
    /\ exc' = NoExc
    /\ pc' = "done"
    /\ UNCHANGED <<store, config, req, principal, authInvoked, authRaised, handlerInvoked,
                   idp, corsWrap>>

Next ==
    \/ ReceiveRequest
    \/ enhanced_cors_middleware_request
    \/ CORSMiddleware_request
    \/ AuthLoggingMiddleware
    \/ emergency_cors_middleware_request
    \/ Router
    \/ NoAuthentication
    \/ RequireAuthentication
    \/ OptionalAuthentication
    \/ DebugOptionalAuth
    \/ RouteHandler
    \/ ExceptionMiddleware
    \/ emergency_cors_middleware_response
    \/ CORSMiddleware_response
    \/ enhanced_cors_middleware_response
    \/ ServerErrorMiddleware

Spec == Init /\ [][Next]_vars

\* ---------------------------------------------------------------------
\* The handlers of the compounds router. Each is an async def without an
\* await, so it runs to its return without another handler in between.
\* ---------------------------------------------------------------------

pipeline ==
    <<pc, req, response, exc, principal, authInvoked, authRaised, handlerInvoked,
      idp, corsWrap, okSeen>>

\* an empty table, with or without a unique index on code
InitCompounds ==
    /\ PipelineInit
    /\ compounds = [i \in CompoundIds |-> NoRow]
    /\ uniqueCode \in BOOLEAN
    /\ lastOp = NoOp

\* POST /compounds/
create_compound ==
    /\ \E code \in Codes :
         IF ByCode(compounds, code) # {}
         THEN /\ compounds' = compounds
              /\ lastOp' = [kind |-> "create", status |-> 400, dup |-> TRUE,
                            changed |-> FALSE]
         ELSE \E id \in CompoundIds \ Rows(compounds) :
              /\ compounds' = [compounds EXCEPT ![id] = code]
              /\ lastOp' = [kind |-> "create", status |-> 201, dup |-> FALSE,
                            changed |-> TRUE]
    /\ UNCHANGED <<uniqueCode, config, pipeline>>

\* PUT /compounds/{compound_id}; code is compound_update.code, Unset when the
\* request leaves it out
update_compound ==
    /\ \E id \in CompoundIds, code \in Codes \cup {Unset} :
         IF compounds[id] = NoRow
         THEN /\ compounds' = compounds
              /\ lastOp' = [kind |-> "update", status |-> 404, dup |-> FALSE,
                            changed |-> FALSE]
         ELSE LET dup == code # Unset /\ ByCode(compounds, code) \ {id} # {}
                  updated == IF code = Unset THEN compounds
                             ELSE [compounds EXCEPT ![id] = code]
              IN  IF /\ code # Unset
                     /\ Truthy(code)
                     /\ code # compounds[id]
                     /\ ByCode(compounds, code) # {}
                  THEN /\ compounds' = compounds
                       /\ lastOp' = [kind |-> "update", status |-> 400,
                                     dup |-> dup, changed |-> FALSE]
                  ELSE IF CommitOk(uniqueCode, updated)
                  THEN /\ compounds' = updated
                       /\ lastOp' = [kind |-> "update", status |-> 200,
                                     dup |-> dup,
                                     changed |-> updated # compounds]
                  ELSE /\ compounds' = compounds
                       /\ lastOp' = [kind |-> "update", status |-> 500,
                                     dup |-> dup, changed |-> FALSE]
    /\ UNCHANGED <<uniqueCode, config, pipeline>>

\* DELETE /compounds/{compound_id}
delete_compound ==
    /\ \E id \in CompoundIds :
         IF compounds[id] = NoRow
         THEN /\ compounds' = compounds
              /\ lastOp' = [kind |-> "delete", status |-> 404, dup |-> FALSE,
                            changed |-> FALSE]
         ELSE /\ compounds' = [compounds EXCEPT ![id] = NoRow]
              /\ lastOp' = [kind |-> "delete", status |-> 204, dup |-> FALSE,
                            changed |-> TRUE]
    /\ UNCHANGED <<uniqueCode, config, pipeline>>

\* the loop of initialize_default_compounds from default k on: a default
\* whose code has no row gets one, under an id not in use
RECURSIVE AddDefaults(_, _)
AddDefaults(c, k) ==
    IF k > Len(DefaultCodes) THEN c
    ELSE IF ByCode(c, DefaultCodes[k]) # {} THEN AddDefaults(c, k + 1)
    ELSE LET id == CHOOSE i \in CompoundIds \ Rows(c) :
                       \A j \in CompoundIds \ Rows(c) : i <= j
         IN  AddDefaults([c EXCEPT ![id] = DefaultCodes[k]], k + 1)

\* the defaults that have no row yet
MissingDefaults(c) ==
    {k \in 1..Len(DefaultCodes) : ByCode(c, DefaultCodes[k]) = {}}

\* POST /compounds/init-defaults
initialize_default_compounds ==
    /\ Cardinality(MissingDefaults(compounds))
          <= Cardinality(CompoundIds \ Rows(compounds))
    /\ compounds' = AddDefaults(compounds, 1)
    /\ lastOp' = [kind |-> "init", status |-> 200, dup |-> FALSE,
                  changed |-> compounds' # compounds]
    /\ UNCHANGED <<uniqueCode, config, pipeline>>

NextCompounds ==
    \/ create_compound
    \/ update_compound
    \/ delete_compound
    \/ initialize_default_compounds

SpecCompounds == InitCompounds /\ [][NextCompounds]_vars

\* ---------------------------------------------------------------------
\* Properties
\* ---------------------------------------------------------------------

\* a response has left the pipeline
Answered == pc = "done"

\* C1: in every response the pipeline emits, Access-Control-Allow-Credentials
\* "true" never comes with Access-Control-Allow-Origin "*".
C1_CredentialsNeverWithWildcard ==
    Answered =>
        (response.headers.acac = "true" => response.headers.acao # "*")

\* C2: an OPTIONS request, on any path, is answered without any
\* authentication dependency or route handler having run, with status 200 or 204.
C2_OptionsAnsweredBeforeRouting ==
    (pc # "idle" /\ req.method = "OPTIONS") =>
        /\ ~authInvoked
        /\ ~handlerInvoked
        /\ (Answered => response.status \in {200, 204})

\* C3: with settings.DEBUG false no request is given the principal
\* "debug-user-id": not by the pipeline, and not by debug_optional_auth whether
\* authentication returned a user, returned None or raised.
C3_NoDebugPrincipalWithoutDebug ==
    /\ ~DEBUG => (principal # DebugUserId /\ response.body.user # DebugUserId)
    /\ \A outcome \in {"principal", "absent", "raises"} :
         debug_optional_auth(FALSE, outcome) # DebugUserId

\* C3 witness: debug off, the identity provider unreachable for a request
\* that carried a credential, and the request answered without a principal.
C3_Witness ==
    /\ ~DEBUG
    /\ Answered
    /\ authInvoked
    /\ req.cred # "none"
    /\ idp = "down"
    /\ principal = NoPrincipal

\* C4: every response carries Access-Control-Allow-Origin, -Credentials,
\* -Methods and -Headers, and every OPTIONS response also Access-Control-Max-Age.
C4_CorsHeadersOnEveryResponse ==
    Answered =>
        /\ response.headers.acao # Absent
        /\ response.headers.acac # Absent
        /\ response.headers.acam # Absent
        /\ response.headers.acah # Absent
        /\ (req.method = "OPTIONS" => response.headers.maxage # Absent)

C6_No500ErrorTextWithoutDebug ==
    (Answered /\ response.status = 500 /\ ~DEBUG) =>
        /\ response.body.detail # ExcText
        /\ response.body.error # ExcText

\* C7: every 401 response carries WWW-Authenticate: Bearer and a detail.
C7_401CarriesBearerChallenge ==
    (Answered /\ response.status = 401) =>
        /\ response.headers.wwwauth = "Bearer"
        /\ response.body.detail # Absent

\* C7 witness: a 401 answered by the main.py wiring.
C7_Witness ==
    /\ Answered
    /\ wiring = "main"
    /\ response.status = 401
    /\ authInvoked

\* C8: under main.py, a non-OPTIONS request whose Origin is on no allow-list
\* reaches its route and gets the route's status, and the response has no
\* Access-Control-Allow-Origin.
C8_UnlistedOriginGetsNoAllowOrigin ==
    (/\ Answered
     /\ wiring = "main"
     /\ req.method # "OPTIONS"
     /\ req.origin # Absent
     /\ ~IsAllowedOrigin(MainCorsConfig, req.origin))
    => /\ (req.path = "/health" /\ req.method = "GET" =>
              handlerInvoked /\ response.status = 200)
       /\ response.headers.acao = Absent

\* C9: the principal "debug-user-id" is never the result of an exception
\* raised during authentication having been caught.
C9_DebugPrincipalNeverFromException ==
    authRaised => principal # DebugUserId

\* C10: in debug mode a request without Authorization to a route that uses
\* optional authentication is handled with the principal "debug-user-id".
C10_DebugOptionalRoutesGetDebugPrincipal ==
    (/\ DEBUG
     /\ handlerInvoked
     /\ req.cred = "none"
     /\ AuthRequirement(wiring, DEBUG, req.path)
            \in {"optional_authentication", "debug_optional_auth"})
    => principal = DebugUserId

\* a Vary header value that names Origin (add_vary_header appends to a
\* value that is already there)
VaryNamesOrigin(v) == v \in {"Origin", "Origin, Origin"}

\* the response carries an Access-Control-Allow-Origin other than "*"
EchoesOrigin(resp) == resp.headers.acao \notin {"*", Absent}

\* C11: every response (preflight or actual) whose Access-Control-Allow-Origin
\* is not "*" carries Vary: Origin, both as it leaves the pipeline and as
\* emergency_cors_middleware hands it on.
C11_EchoedOriginCarriesVary ==
    /\ (Answered /\ EchoesOrigin(response))
          => VaryNamesOrigin(response.headers.vary)
    /\ (wiring = "main1" /\ pc = "cors_response" /\ EchoesOrigin(response))
          => VaryNamesOrigin(response.headers.vary)

\* C11 witness: a preflight of main1.py answered with the request's Origin
\* echoed.
C11_Witness ==
    /\ Answered
    /\ wiring = "main1"
    /\ req.method = "OPTIONS"
    /\ req.origin # Absent
    /\ response.headers.acao = req.origin

\* C12: under main1.py every OPTIONS request with Origin o is answered with
\* status 200, Access-Control-Allow-Origin o and Access-Control-Allow-Credentials
\* "true".
C12_PermissivePreflightEchoesOrigin ==
    (/\ Answered
     /\ wiring = "main1"
     /\ req.method = "OPTIONS"
     /\ req.origin # Absent)
    => /\ response.status = 200
       /\ response.headers.acao = req.origin
       /\ response.headers.acac = "true"

\* C13: every 404 response has a body with a detail and the requested path.
C13_404BodyHasDetailAndPath ==
    (Answered /\ response.status = 404) =>
        /\ response.body.detail # Absent
        /\ response.body.path = req.path

\* C14: with debug mode off, a handler of the compounds / templates /
\* documents routers runs only for a request for which require_authentication
\* has succeeded: it never runs with an absent principal.
C14_ProtectedHandlerOnlyAfterAuthentication ==
    (/\ ~DEBUG
     /\ handlerInvoked
     /\ req.path = "/compounds/{id}")
    => /\ authInvoked
       /\ AuthChain(req.cred, idp) = "principal"
       /\ principal = RealUserId

\* C14 witness: debug off, a router handler has run for an authenticated
\* request.
C14_Witness ==
    /\ ~DEBUG
    /\ handlerInvoked
    /\ req.path = "/compounds/{id}"
    /\ principal = RealUserId
    /\ pc = "exception_middleware"

\* C15: after any sequence of create, update, delete and init-defaults no
\* two compounds have the same code, and a create or update that asks for a
\* code another compound has returns 400 and leaves the table unchanged.
C15_CodesStayDistinct ==
    /\ DistinctCodes(compounds)
    /\ (lastOp.kind \in {"create", "update"} /\ lastOp.dup)
          => (lastOp.status = 400 /\ ~lastOp.changed)

====
